---- MODULE Spec2Model ----
(***************************************************************************)
(* bitmex_trade_buckets.py: the gap reconciler (fill_gaps), the live       *)
(* stream consumer (capture_data) and the shutdown path                    *)
(* (gracefully_finish), as a state machine.  Time is in seconds since the  *)
(* epoch, as the source's .timestamp() values; bucket timestamps are whole *)
(* minutes.                                                                *)
(***************************************************************************)
EXTENDS Integers, Sequences, FiniteSets, TLC

(* ------------------------------ constants ------------------------------ *)

\* Python's None for the nullable timestamps (max_timestamp_dt, when_outage_occurred).
None == -1

\* line 102: "+ 60", one minute in seconds.
MINUTE == 60

\* line 92: horizon=21*24*60*60.
DefaultHorizon == 1814400

\* line 120: start_time + 2*60*60.
TwoHours == 7200

\* line 111: count=120.
PageCount == 120

\* line 123: time.sleep(2).
SleepSecs == 2

\* line 151: + 5*60.
Cushion == 300

(* -------------------------------- bounds ------------------------------- *)

\* Wall-clock minute at which the modelled run starts.
StartMinute == 30300

\* Minutes of history the exchange holds before the run starts.
HistoryMinutes == 130

\* Seconds of wall-clock time the model follows the run for.
MaxElapsed == 640

\* Historical page requests that may fail in one run.
MaxFetchFails == 1

\* Store statements (the maximum query, an insert) that may meet a transient
\* fault in one run; an insert refused for its duplicate key is not one.
MaxStoreFails == 1

\* Receive failures of the live connection in one run.
MaxRecvFails == 2

T0 == StartMinute * MINUTE

Epoch == T0 - HistoryMinutes * MINUTE

\* The minutes for which the exchange produced no bucket.
Halted == {T0 - 20 * MINUTE, T0}

\* How long a blocking network call (connect, recv) may take.
Delays == {0, MINUTE}

\* Newest stored minute before the run, as seconds behind T0 (None: empty store).
InitBehind == {None, 2 * MINUTE, 10 * MINUTE, 121 * MINUTE}

\* Second of the minute at which a stand-alone fill_gaps pass is invoked.
InitOffsets == {0, 30}

(* ------------------------------- helpers ------------------------------- *)

Min(a, b) == IF a <= b THEN a ELSE b

Max(a, b) == IF a >= b THEN a ELSE b

\* The minute buckets the exchange holds at time t (partial=False: completed only).
Exch(t) == {k * MINUTE : k \in (Epoch \div MINUTE)..(t \div MINUTE)} \ Halted

\* The smallest element of a non-empty set of numbers.
Lowest(S) == CHOOSE m \in S : \A x \in S : m <= x

\* SELECT MAX(timestamp_dt): None for an empty table.
MaxOf(S) == IF S = {} THEN None ELSE -Lowest({-x : x \in S})

\* strftime("%Y-%m-%d %H:%M"): the instant cut down to its minute.
StartTimeStr(s) == (s \div MINUTE) * MINUTE

\* The exchange's buckets from minute lo on that precede minute m.
Rank(m, lo) == (m - lo) \div MINUTE - Cardinality({h \in Halted : lo <= h /\ h < m})

\* Trade_getBucketed(binSize="1m", partial=False, reverse=False, count=120,
\* filter={"startTime": str}) answered at time t: the first 120 buckets with
\* timestamp >= str that the exchange holds.
Trade_getBucketed(str, t) ==
    LET lo == Max(str, Epoch)
    IN  {m \in Exch(t) : m >= lo /\ Rank(m, lo) < PageCount}

(* ------------------------------ the store ------------------------------ *)

\* The table tradeBin1m is [rows, dups]: rows is the set of keys
\* (timestamp, XBTUSD) present, dups the number of rows beyond one per key.

\* cursor.execute(INSERT ...); connection.commit().  up: the connection is open
\* and the statement meets no transient fault.  (timestamp, symbol) is the
\* primary key (line 177), so a second row for a key is refused.
\* row: a row was written; err: the statement raised.
ExecuteInsert(tbl, ts, up) ==
    IF up /\ ts \notin tbl.rows
    THEN [row |-> TRUE, err |-> FALSE]
    ELSE [row |-> FALSE, err |-> TRUE]

\* insert_trade_bucket with its except clause missing: the store's error reaches the caller.
insert_trade_bucket_unguarded(tbl, ts, up) ==
    LET r == ExecuteInsert(tbl, ts, up) IN [row |-> r.row, raised |-> r.err]

\* insert_trade_bucket: any exception of the insert is logged and swallowed.
insert_trade_bucket(tbl, ts, up) ==
    LET r == ExecuteInsert(tbl, ts, up) IN [row |-> r.row, raised |-> FALSE]

\* The table after the rows written for the keys in written are added to it.
WithRows(tbl, written) ==
    [rows |-> tbl.rows \cup written,
     dups |-> tbl.dups + Cardinality(written \cap tbl.rows)]

\* get_max_timestamp_of_trade_buckets: None when the table is empty or the query fails.
get_max_timestamp_of_trade_buckets(tbl, up) ==
    IF up THEN MaxOf(tbl.rows) ELSE None

\* line 119: for k in range(0, len(trades[0])): insert_trade_bucket(trades[0][k]).
\* The keys of a page are distinct, so each insert of the loop meets the table
\* as the loop found it.  bad is the bucket whose insert meets a transient
\* fault (None: none does).
Archive(tbl, page, bad, conn) ==
    LET one(ts) == insert_trade_bucket(tbl, ts, conn /\ ts # bad)
    IN  [tbl    |-> WithRows(tbl, {ts \in page : one(ts).row}),
         raised |-> \E ts \in page : one(ts).raised]

(* ------------------------------ fill_gaps ------------------------------ *)

\* lines 97-99: an absent maximum defaults to now.
DefaultToNow(maxts, t) == IF maxts = None THEN t ELSE maxts

\* line 102 with max for min.
FirstStartMax(t, h, maxts) == Max(t - h, maxts) + MINUTE

\* line 102 without its "+ 60".
FirstStartNoMinute(t, h, maxts) == Min(t - h, maxts)

\* lines 101-102: start_time = min(now - horizon, max_timestamp_dt) + 60.
FirstStart(t, h, maxts) == Min(t - h, maxts) + MINUTE

\* line 104 as "while True".
WhileTrue(s, t) == TRUE

\* line 104: while start_time <= now.
WhileTest(s, t) == s <= t

\* line 118 taken as true whatever the fetch did.
ArchivesAlways(tr) == TRUE

\* line 118 as "if trades and trades[0]": an empty page counts as no page.
ArchivesNonEmpty(tr) == tr.ok /\ tr.page # {}

\* line 118: "if trades:".  trades is the (list, response) pair of a successful
\* request, true even for an empty list, or None after a failed one.
Archives(tr) == tr.ok

\* line 123 placed under the "if trades:" of line 118: no sleep after a failed request.
PacingOnSuccess(tr) == IF tr.ok THEN "sleep" ELSE "while"

\* lines 122-123: time.sleep(2) follows the if of line 118 whatever trades is.
Pacing(tr) == "sleep"

\* line 120 with a step of four hours.
NextStartLong(s) == s + 2 * TwoHours

\* line 120 with a step of two minutes.
NextStartShort(s) == s + 2 * MINUTE

\* line 120: start_time = start_time + 2*60*60.
NextStart(s) == s + TwoHours

VARIABLES
    clock,                    \* wall-clock time
    tradeBin1m,               \* the store's table
    connection,               \* the store connection is open
    orch,                     \* position of the module-level code, lines 200-207
    pc,                       \* position of capture_data / fill_gaps
    ret,                      \* where the running fill_gaps pass returns to
    now,                      \* fill_gaps: now
    horizon,                  \* fill_gaps: horizon
    start_time,               \* fill_gaps: start_time
    rcvd_tradeBin1m_partial,  \* capture_data: rcvd_tradeBin1m_partial
    when_outage_occurred,     \* capture_data: when_outage_occurred
    websocket,                \* websocket.open
    \* history variables, read by the properties only
    ev,                       \* the last operation: [op, ts, prev]
    lastReq,                  \* the last page request of the pass: [start, ok, pok]
    nreq,                     \* page requests issued by the pass so far
    pass,                     \* the pass: [now, max, true_max, first]
    fetchFails,               \* failed page requests so far
    storeFails,              \* faulted inserts so far
    recvFails,                \* receive failures so far
    connPartial,              \* a snapshot frame was received on this connection
    outage,                   \* the open outage: [since, horizon]
    firstFailure,             \* the first receive failure since the last frame received
    frame                     \* the frame received in the current turn of the loop

vars == <<clock, tradeBin1m, connection, orch, pc, ret, now, horizon, start_time,
          rcvd_tradeBin1m_partial, when_outage_occurred, websocket,
          ev, lastReq, nreq, pass, fetchFails, storeFails, recvFails, connPartial,
          outage, firstFailure, frame>>

fillVars == <<now, horizon, start_time, lastReq, nreq, pass>>

liveVars == <<rcvd_tradeBin1m_partial, when_outage_occurred, websocket, recvFails,
              connPartial, outage, firstFailure, frame>>

Ev(op, ts, prev) == [op |-> op, ts |-> ts, prev |-> prev]

\* start: the start time requested; ok: the request succeeded; pok: the one
\* before it did; npage: the buckets of the page; ins_failed: the store
\* refused an insert of the page; at: the time of the request.
NoReq == [start |-> None, ok |-> TRUE, pok |-> TRUE, npage |-> 0, ins_failed |-> FALSE,
          at |-> None]

\* now: now at the invocation; max: the maximum the store returned; true_max: the
\* maximum the table held; first: the start time of the first page request.
NoPass == [now |-> None, max |-> None, true_max |-> None, first |-> None]

NoOutage == [since |-> None, horizon |-> None]

\* No frame has been received in this turn of the loop.
NoFrame == [json |-> FALSE, table |-> "none", action |-> "none", hasData |-> FALSE,
            data |-> <<>>]

\* The store before the run: what earlier runs archived, up to its newest minute.
InitTables == {[rows |-> IF b = None THEN {} ELSE Exch(T0 - b), dups |-> 0] : b \in InitBehind}

Running == orch = "run_until_complete"

InTime(d) == clock + d <= T0 + MaxElapsed

\* Whether a store statement runs (TRUE) or meets a transient fault (FALSE).
StoreOutcomes == IF storeFails < MaxStoreFails THEN {TRUE, FALSE} ELSE {TRUE}

\* lines 93-102: sample now, read the store's maximum, place start_time.
FillGapsEnter ==
    /\ Running /\ pc = "fill_gaps"
    /\ \E qok \in StoreOutcomes :
         LET maxts == get_max_timestamp_of_trade_buckets(tradeBin1m, connection /\ qok)
         IN  /\ now' = clock
             /\ start_time' = FirstStart(clock, horizon, DefaultToNow(maxts, clock))
             /\ pass' = [now |-> clock, max |-> maxts,
                         true_max |-> MaxOf(tradeBin1m.rows), first |-> None]
             /\ storeFails' = IF qok THEN storeFails ELSE storeFails + 1
    /\ lastReq' = NoReq
    /\ nreq' = 0
    /\ pc' = "while"
    /\ ev' = Ev("enter", start_time', None)
    /\ UNCHANGED <<clock, tradeBin1m, connection, orch, ret, horizon, fetchFails>>
    /\ UNCHANGED liveVars

\* line 104: while start_time <= now; the pass returns when the test fails.
FillGapsTest ==
    /\ Running /\ pc = "while"
    /\ IF WhileTest(start_time, now)
       THEN pc' = "fetch" /\ ev' = Ev("test", start_time, now)
       ELSE pc' = ret /\ ev' = Ev("return", start_time, now)
    /\ UNCHANGED <<clock, tradeBin1m, connection, orch, ret, fetchFails, storeFails>>
    /\ UNCHANGED fillVars
    /\ UNCHANGED liveVars

\* lines 106-120 after a page request, tr its outcome: archive the page and
\* advance start_time if the request succeeded.
AfterFetch(tr, bad) ==
    LET arch == IF Archives(tr)
                THEN Archive(tradeBin1m, tr.page, bad, connection)
                ELSE [tbl |-> tradeBin1m, raised |-> FALSE]
        req  == StartTimeStr(start_time)
    IN  /\ tradeBin1m' = arch.tbl
        /\ IF arch.raised
           THEN pc' = "ended" /\ start_time' = start_time
           ELSE /\ pc' = Pacing(tr)
                /\ start_time' = IF Archives(tr) THEN NextStart(start_time) ELSE start_time
        /\ lastReq' = [start |-> req, ok |-> tr.ok, pok |-> lastReq.ok,
                       npage |-> Cardinality(tr.page),
                       ins_failed |-> \E ts \in tr.page :
                           ExecuteInsert(tradeBin1m, ts, connection /\ ts # bad).err,
                       at |-> clock]
        /\ pass' = IF nreq = 0 THEN [pass EXCEPT !.first = req] ELSE pass
        /\ nreq' = nreq + 1
        /\ ev' = Ev(IF tr.ok THEN "fetch_ok" ELSE "fetch_fail", req, lastReq.start)
        /\ storeFails' = IF bad = None THEN storeFails ELSE storeFails + 1
        /\ fetchFails' = IF tr.ok THEN fetchFails ELSE fetchFails + 1

\* The inserts of a page that may meet a transient fault: the first or the last.
InsertFaults(page) ==
    {None} \cup (IF storeFails < MaxStoreFails /\ page # {}
                 THEN {Lowest(page), MaxOf(page)} ELSE {})

\* lines 110-112, 118-120: the page request succeeds.
FetchOk ==
    /\ Running /\ pc = "fetch"
    /\ LET page == Trade_getBucketed(StartTimeStr(start_time), clock)
       IN  \E bad \in InsertFaults(page) : AfterFetch([ok |-> TRUE, page |-> page], bad)
    /\ UNCHANGED <<clock, connection, orch, ret, now, horizon>>
    /\ UNCHANGED liveVars

\* lines 113-115: the page request raises; trades = None.
FetchFail ==
    /\ Running /\ pc = "fetch"
    /\ fetchFails < MaxFetchFails
    /\ AfterFetch([ok |-> FALSE, page |-> {}], None)
    /\ UNCHANGED <<clock, connection, orch, ret, now, horizon>>
    /\ UNCHANGED liveVars

\* lines 123-125: sleep, then sample now again.
FillGapsSleep ==
    /\ Running /\ pc = "sleep"
    /\ InTime(SleepSecs)
    /\ clock' = clock + SleepSecs
    /\ now' = clock'
    /\ pc' = "while"
    /\ ev' = Ev("sleep", start_time, now')
    /\ UNCHANGED <<tradeBin1m, connection, orch, ret, horizon, start_time, lastReq, nreq,
                   pass, fetchFails, storeFails>>
    /\ UNCHANGED liveVars

(* --------------------- fill_gaps as a unit: SpecFill -------------------- *)

\* A call fill_gaps(h) with the horizons capture_data passes: the default
\* (line 129) and the outage horizon of line 151.
Horizons == {DefaultHorizon, Cushion}

InitFill ==
    /\ clock \in {T0 + o : o \in InitOffsets}
    /\ tradeBin1m \in InitTables
    /\ connection = TRUE
    /\ orch = "run_until_complete"
    /\ pc = "fill_gaps"
    /\ ret = "returned"
    /\ now = None
    /\ horizon \in Horizons
    /\ start_time = None
    /\ rcvd_tradeBin1m_partial = FALSE
    /\ when_outage_occurred = None
    /\ websocket = FALSE
    /\ ev = Ev("call", None, None)
    /\ lastReq = NoReq
    /\ nreq = 0
    /\ pass = NoPass
    /\ fetchFails = 0
    /\ storeFails = 0
    /\ recvFails = 0
    /\ connPartial = FALSE
    /\ outage = NoOutage
    /\ firstFailure = None
    /\ frame = NoFrame

NextFill == FillGapsEnter \/ FillGapsTest \/ FetchOk \/ FetchFail \/ FillGapsSleep

SpecFill == InitFill /\ [][NextFill]_vars

\* fill_gaps runs its statements one after the other, so a step that can be
\* taken is taken (weak fairness); a window whose request keeps being made is
\* answered successfully at some point (strong fairness of FetchOk).
\* The passes followed to their end are those of line 152, after an outage.
InitFillFair == InitFill /\ horizon = Cushion

SpecFillFair ==
    /\ InitFillFair /\ [][NextFill]_vars
    /\ WF_vars(FillGapsEnter) /\ WF_vars(FillGapsTest) /\ WF_vars(FillGapsSleep)
    /\ SF_vars(FetchOk)

(* ----------------------------- capture_data ---------------------------- *)

\* A timestamp string iso8601.parse_date rejects.
BadTs == -2

\* A key a JSON object does not have.
Absent == "absent"

\* The newest bucket the exchange holds at time t.
LatestBucket(t) == MaxOf(Exch(t))

Bucket(ts, sym) == [timestamp |-> ts, symbol |-> sym]

Frame(js, tb, ac, hd, da) == [json |-> js, table |-> tb, action |-> ac, hasData |-> hd, data |-> da]

\* The frames the feed may deliver at time t: the acknowledgments, the snapshot,
\* the minute's bucket, and out-of-contract frames.
Frames(t) ==
    LET b == Bucket(LatestBucket(t), "XBTUSD")
    IN  { Frame(TRUE, Absent, Absent, FALSE, <<>>),
          Frame(TRUE, "tradeBin1m", "partial", TRUE, <<b>>),
          Frame(TRUE, "tradeBin1m", "insert", TRUE, <<b>>),
          Frame(TRUE, "tradeBin1m", "insert", TRUE,
                <<Bucket(LatestBucket(t) - MINUTE, "XBTUSD"), b>>),
          Frame(TRUE, "tradeBin1m", "insert", FALSE, <<>>),
          Frame(TRUE, "tradeBin1m", "insert", TRUE, <<>>),
          Frame(TRUE, "tradeBin1m", "insert", TRUE, <<Bucket(None, "XBTUSD")>>),
          Frame(TRUE, "tradeBin1m", "insert", TRUE, <<Bucket(b.timestamp, Absent)>>),
          Frame(TRUE, "tradeBin1m", "insert", TRUE, <<Bucket(b.timestamp, "ETHUSD")>>),
          Frame(TRUE, "tradeBin1m", "insert", TRUE, <<Bucket(BadTs, "XBTUSD")>>),
          Frame(FALSE, Absent, Absent, FALSE, <<>>) }

\* line 175 with the first element for the last.
FirstInsert(data) == data[1]

\* line 175: last_insert = data['data'][-1].
LastInsert(data) == data[Len(data)]

\* lines 156-182: what capture_data does with a received frame, rcvd being
\* rcvd_tradeBin1m_partial: "raise" (json.loads or parse_date raises),
\* "skip" (continue), "partial" (set the flag) or "insert" (bucket ts).
HandleFrame(f, rcvd) ==
    IF ~f.json THEN [do |-> "raise", ts |-> None]
    ELSE IF f.table = Absent \/ f.action = Absent THEN [do |-> "skip", ts |-> None]
    ELSE IF f.table = "tradeBin1m" /\ f.action = "partial" THEN [do |-> "partial", ts |-> None]
    ELSE IF ~rcvd THEN [do |-> "skip", ts |-> None]
    ELSE IF ~f.hasData \/ Len(f.data) <= 0 THEN [do |-> "skip", ts |-> None]
    ELSE LET last_insert == LastInsert(f.data)
         IN  IF \/ last_insert.timestamp = None
                \/ last_insert.symbol = Absent
                \/ last_insert.symbol # "XBTUSD"
             THEN [do |-> "skip", ts |-> None]
             ELSE IF last_insert.timestamp = BadTs THEN [do |-> "raise", ts |-> None]
             ELSE [do |-> "insert", ts |-> last_insert.timestamp]

\* capture_data without line 129: the connection is opened at once.
CaptureStartNoPass ==
    /\ Running /\ pc = "capture_data"
    /\ horizon' = DefaultHorizon
    /\ pc' = "connect"
    /\ ret' = "connect"
    /\ ev' = Ev("start", None, None)
    /\ UNCHANGED <<clock, tradeBin1m, connection, orch, now, start_time, lastReq, nreq,
                   pass, fetchFails, storeFails>>
    /\ UNCHANGED liveVars

\* line 129: capture_data first calls fill_gaps() with the default horizon.
CaptureStart ==
    /\ Running /\ pc = "capture_data"
    /\ horizon' = DefaultHorizon
    /\ pc' = "fill_gaps"
    /\ ret' = "connect"
    /\ ev' = Ev("start", None, None)
    /\ UNCHANGED <<clock, tradeBin1m, connection, orch, now, start_time, lastReq, nreq,
                   pass, fetchFails, storeFails>>
    /\ UNCHANGED liveVars

\* lines 136 and 140, then 139 and 142 on the open socket: the connection is
\* made and the outage marker cleared.
ConnectOk ==
    /\ Running /\ pc \in {"connect", "reconnect"}
    /\ \E d \in Delays : InTime(d) /\ clock' = clock + d
    /\ websocket' = TRUE
    /\ when_outage_occurred' = None
    /\ connPartial' = FALSE
    /\ pc' = "recv"
    /\ ev' = IF outage.since = None THEN Ev(pc, None, None)
             ELSE Ev("recovered", clock' - outage.since, outage.horizon)
    /\ outage' = NoOutage
    /\ UNCHANGED <<tradeBin1m, connection, orch, ret, rcvd_tradeBin1m_partial,
                   fetchFails, storeFails, recvFails, firstFailure, frame>>
    /\ UNCHANGED fillVars

\* lines 136 and 140: websockets.connect raises; nothing in capture_data catches it.
ConnectFail ==
    /\ Running /\ pc \in {"connect", "reconnect"}
    /\ \E d \in Delays : InTime(d) /\ clock' = clock + d
    /\ pc' = "ended"
    /\ ev' = Ev("connect_failed", None, None)
    /\ UNCHANGED <<tradeBin1m, connection, orch, ret, fetchFails, storeFails>>
    /\ UNCHANGED fillVars
    /\ UNCHANGED liveVars

\* lines 137-142: the top of the loop.
LoopTop ==
    /\ Running /\ pc = "while_true"
    /\ IF ~websocket
       THEN pc' = "reconnect" /\ UNCHANGED when_outage_occurred
       ELSE pc' = "recv" /\ when_outage_occurred' = None
    /\ ev' = Ev("top", None, None)
    /\ frame' = NoFrame
    /\ UNCHANGED <<clock, tradeBin1m, connection, orch, ret, rcvd_tradeBin1m_partial,
                   websocket, connPartial, outage, fetchFails, storeFails, recvFails,
                   firstFailure>>
    /\ UNCHANGED fillVars

\* lines 144, 156-183: a frame is received and handled.  stillOpen: the
\* connection is still open once the frame has been handed over.
RecvFrame ==
    /\ Running /\ pc = "recv"
    /\ \E d \in Delays, stillOpen \in BOOLEAN :
         /\ InTime(d)
         /\ clock' = clock + d
         /\ websocket' = stillOpen
         /\ \E f \in Frames(clock + d) :
              LET h == HandleFrame(f, rcvd_tradeBin1m_partial)
              IN  \E ok \in (IF h.do = "insert" THEN StoreOutcomes ELSE {TRUE}) :
                    LET r == IF h.do = "insert"
                             THEN insert_trade_bucket(tradeBin1m, h.ts, connection /\ ok)
                             ELSE [row |-> FALSE, raised |-> FALSE]
                    IN  /\ tradeBin1m' = WithRows(tradeBin1m, IF r.row THEN {h.ts} ELSE {})
                        /\ pc' = IF h.do = "raise" \/ r.raised THEN "ended" ELSE "while_true"
                        /\ rcvd_tradeBin1m_partial' =
                              (rcvd_tradeBin1m_partial \/ h.do = "partial")
                        /\ connPartial' = (connPartial \/ h.do = "partial")
                        /\ storeFails' = IF ok THEN storeFails ELSE storeFails + 1
                        /\ ev' = Ev(h.do, h.ts, IF r.row THEN 1 ELSE 0)
                        /\ frame' = f
    /\ firstFailure' = None
    /\ UNCHANGED <<connection, orch, ret, when_outage_occurred, outage, fetchFails,
                   recvFails>>
    /\ UNCHANGED fillVars

\* lines 145-153 with the reconnect of line 140 attempted before the pass of line 152.
RecvFailReconnectFirst ==
    /\ Running /\ pc = "recv"
    /\ recvFails < MaxRecvFails
    /\ recvFails' = recvFails + 1
    /\ \E d \in Delays : InTime(d) /\ clock' = clock + d
    /\ websocket' = FALSE
    /\ when_outage_occurred' = IF when_outage_occurred = None THEN clock'
                               ELSE when_outage_occurred
    /\ horizon' = clock' - when_outage_occurred' + Cushion
    /\ pc' = "reconnect"
    /\ ret' = "while_true"
    /\ outage' = IF outage.since = None
                 THEN [since |-> clock', horizon |-> horizon']
                 ELSE [since |-> outage.since, horizon |-> Max(outage.horizon, horizon')]
    /\ firstFailure' = IF firstFailure = None THEN clock' ELSE firstFailure
    /\ ev' = Ev("recv_failed", horizon', None)
    /\ UNCHANGED <<tradeBin1m, connection, orch, rcvd_tradeBin1m_partial, connPartial,
                   now, start_time, lastReq, nreq, pass, fetchFails, storeFails, frame>>

\* lines 145-153: recv raises; mark the outage, size the horizon, call fill_gaps.
RecvFail ==
    /\ Running /\ pc = "recv"
    /\ recvFails < MaxRecvFails
    /\ recvFails' = recvFails + 1
    /\ \E d \in Delays : InTime(d) /\ clock' = clock + d
    /\ websocket' = FALSE
    /\ when_outage_occurred' = IF when_outage_occurred = None THEN clock'
                               ELSE when_outage_occurred
    /\ horizon' = clock' - when_outage_occurred' + Cushion
    /\ pc' = "fill_gaps"
    /\ ret' = "while_true"
    /\ outage' = IF outage.since = None
                 THEN [since |-> clock', horizon |-> horizon']
                 ELSE [since |-> outage.since, horizon |-> Max(outage.horizon, horizon')]
    /\ firstFailure' = IF firstFailure = None THEN clock' ELSE firstFailure
    /\ ev' = Ev("recv_failed", horizon', None)
    /\ UNCHANGED <<tradeBin1m, connection, orch, rcvd_tradeBin1m_partial, connPartial,
                   now, start_time, lastReq, nreq, pass, fetchFails, storeFails, frame>>

(* --------------------- lines 200-207, gracefully_finish ----------------- *)

\* Where capture_data is suspended in an await.
AwaitPcs == {"connect", "reconnect", "recv"}

\* SIGINT while run_until_complete(capture_data()) runs.  Raised in the event
\* loop while the task is suspended, it leaves the task pending; raised in the
\* task's own synchronous code, it ends the task.
Interrupt ==
    /\ Running /\ pc # "ended"
    /\ orch' = "gracefully_finish"
    /\ pc' = IF pc \in AwaitPcs THEN pc ELSE "ended"
    /\ ev' = Ev("interrupt", None, None)
    /\ UNCHANGED <<clock, tradeBin1m, connection, ret, fetchFails, storeFails>>
    /\ UNCHANGED fillVars
    /\ UNCHANGED liveVars

\* lines 203-206: capture_data raised; the finally clause runs gracefully_finish.
CaptureEnded ==
    /\ Running /\ pc = "ended"
    /\ orch' = "gracefully_finish"
    /\ ev' = Ev("finally", None, None)
    /\ UNCHANGED <<clock, tradeBin1m, connection, pc, ret, fetchFails, storeFails>>
    /\ UNCHANGED fillVars
    /\ UNCHANGED liveVars

\* lines 187-188: connection.close().
CloseConnection ==
    /\ orch = "gracefully_finish"
    /\ connection' = FALSE
    /\ orch' = "cancel_tasks"
    /\ ev' = Ev("close", None, None)
    /\ UNCHANGED <<clock, tradeBin1m, pc, ret, fetchFails, storeFails>>
    /\ UNCHANGED fillVars
    /\ UNCHANGED liveVars

\* lines 191-197: task.cancel(); await task.  A task that already ended
\* stays as it is.  CancelledError is not an Exception (Python 3.8, the last
\* version with asyncio.Task.all_tasks), so line 145 does not catch it.
CancelTasks ==
    /\ orch = "cancel_tasks"
    /\ pc' = IF pc \in AwaitPcs THEN "cancelled" ELSE pc
    /\ orch' = "loop_stop"
    /\ ev' = Ev("cancel", None, None)
    /\ UNCHANGED <<clock, tradeBin1m, connection, ret, fetchFails, storeFails>>
    /\ UNCHANGED fillVars
    /\ UNCHANGED liveVars

\* lines 198, 207: loop.stop(); event_loop.close().
LoopStop ==
    /\ orch = "loop_stop"
    /\ orch' = "closed"
    /\ ev' = Ev("stop", None, None)
    /\ UNCHANGED <<clock, tradeBin1m, connection, pc, ret, fetchFails, storeFails>>
    /\ UNCHANGED fillVars
    /\ UNCHANGED liveVars

(* ------------------------------ the program ---------------------------- *)

Init ==
    /\ clock = T0
    /\ tradeBin1m \in InitTables
    /\ connection = TRUE
    /\ orch = "run_until_complete"
    /\ pc = "capture_data"
    /\ ret = "connect"
    /\ now = None
    /\ horizon = None
    /\ start_time = None
    /\ rcvd_tradeBin1m_partial = FALSE
    /\ when_outage_occurred = None
    /\ websocket = FALSE
    /\ ev = Ev("init", None, None)
    /\ lastReq = NoReq
    /\ nreq = 0
    /\ pass = NoPass
    /\ fetchFails = 0
    /\ storeFails = 0
    /\ recvFails = 0
    /\ connPartial = FALSE
    /\ outage = NoOutage
    /\ firstFailure = None
    /\ frame = NoFrame

Next ==
    \/ CaptureStart
    \/ FillGapsEnter \/ FillGapsTest \/ FetchOk \/ FetchFail \/ FillGapsSleep
    \/ ConnectOk \/ ConnectFail \/ LoopTop \/ RecvFrame \/ RecvFail
    \/ Interrupt \/ CaptureEnded \/ CloseConnection \/ CancelTasks \/ LoopStop

Spec == Init /\ [][Next]_vars

(* ------------------------------ properties ----------------------------- *)

\* The exchange buckets newer than minute T that exist at time t and are not stored.
MissingSince(T, t) == {m \in Exch(t) : m > T /\ m \notin tradeBin1m.rows}

\* C1 (snapshot gating per connection): whenever capture_data hands a bucket
\* of the live feed to insert_trade_bucket, a snapshot ('partial') frame has
\* been received on the connection the bucket arrived on.
C1_SnapshotGating == ev.op = "insert" => connPartial

\* C2 (retry without skip): a page request that follows a failed one asks for
\* the same start time, and start_time changes inside a pass only in an
\* iteration whose request succeeded, and then by exactly two hours.
C2_RetryWithoutSkip ==
    [][ /\ (nreq' = nreq + 1 /\ nreq >= 1 /\ ~lastReq.ok) => lastReq'.start = lastReq.start
        /\ (start_time' # start_time /\ pc # "fill_gaps")
              => (nreq' = nreq + 1 /\ lastReq'.ok /\ start_time' = start_time + TwoHours)
      ]_vars

\* A failed request has been followed by a successful request for the same start time.
C2_Witness == nreq >= 2 /\ ~lastReq.pok /\ lastReq.ok /\ start_time = lastReq.start + TwoHours

C4_OutageHorizon == ev.op = "recovered" => ev.prev >= ev.ts + Cushion

\* C5 as claimed (empty store): when the store returns no maximum, the pass
\* sets start_time to now and issues no page request.
C5_EmptyStoreNoFetch ==
    (pass.now # None /\ pass.max = None)
    => (nreq = 0 /\ (ev.op = "enter" => start_time = pass.now))

\* C5 as amended: when the store returns no maximum, the pass takes now for
\* it, so start_time is now - horizon + 60 s; its first page request is for
\* that minute, it does not return before a request was made, and with the
\* 21-day default it issues at least 252 requests.
C5_EmptyStoreStart ==
    (pass.now # None /\ pass.max = None)
    => /\ ev.op = "enter" => start_time = pass.now - horizon + MINUTE
       /\ nreq >= 1 => pass.first = StartTimeStr(pass.now - horizon + MINUTE)
       /\ ev.op = "return" => nreq >= 1
       /\ (ev.op = "return" /\ horizon = DefaultHorizon) => nreq >= 252

\* A default pass over an empty store has returned after its 252 requests or more.
C5_Witness ==
    /\ pass.now # None /\ pass.max = None /\ pass.true_max = None
    /\ horizon = DefaultHorizon
    /\ ev.op = "return"
    /\ nreq >= 252

\* The pass was invoked with the store's maximum ten minutes before now.
SmallGap == pass.max # None /\ pass.max = pass.now - 10 * MINUTE

\* C6 as claimed (small gap): with the store's maximum at now - 10 min and a
\* horizon of ten minutes or more, the pass issues one page request only,
\* for the window starting at now - 9 min.
C6_SmallGapOneFetch ==
    (SmallGap /\ horizon >= 10 * MINUTE)
    => (nreq <= 1 /\ (nreq = 1 => lastReq.start = pass.now - 9 * MINUTE))

\* C6 as amended: with the store's maximum at now - 10 min the first page
\* request is for the minute of min(now - horizon, maximum) + 60 s.  With a
\* horizon of at most ten minutes that is now - 9 min, and a pass without a
\* failed request returns after that one request.  With the 21-day default
\* it is now - 21 days + 1 min, and the pass issues at least 252 requests.
C6_SmallGapStart ==
    SmallGap
    => /\ nreq >= 1 => pass.first = StartTimeStr(Min(pass.now - horizon, pass.max) + MINUTE)
       /\ horizon <= 10 * MINUTE
            => /\ nreq >= 1 => pass.first = pass.now - 9 * MINUTE
               /\ (ev.op = "return" /\ fetchFails = 0) => nreq = 1
       /\ horizon = DefaultHorizon
            => /\ nreq >= 1 => pass.first = pass.now - DefaultHorizon + MINUTE
               /\ ev.op = "return" => nreq >= 252

\* A pass with the outage horizon has returned after its one request for now - 9 min.
C6_Witness ==
    /\ SmallGap /\ horizon = Cushion
    /\ ev.op = "return" /\ nreq = 1
    /\ lastReq.start = pass.now - 9 * MINUTE
    /\ MissingSince(pass.max, pass.now) = {}

\* C7 (insert idempotence): an insert of a bucket whose key the table holds
\* leaves the table as it was, raises nothing and lets the caller go on: the
\* live path continues its loop, and a page of fill_gaps adds no second row
\* for a key, removes none and goes on to the pacing sleep.
C7_InsertIdempotent ==
    [][ /\ (pc = "recv" /\ ev'.op = "insert" /\ ev'.ts \in tradeBin1m.rows)
              => (tradeBin1m' = tradeBin1m /\ pc' = "while_true")
        /\ (pc = "fetch" /\ nreq' = nreq + 1)
              => /\ tradeBin1m'.dups = tradeBin1m.dups
                 /\ tradeBin1m.rows \subseteq tradeBin1m'.rows
                 /\ pc' = "sleep"
      ]_vars

\* The live path has inserted a bucket the table already held, with the store healthy.
C7_Witness ==
    /\ ev.op = "insert" /\ ev.prev = 0
    /\ storeFails = 0
    /\ ev.ts \in tradeBin1m.rows
    /\ tradeBin1m.dups = 0
    /\ pc = "while_true"

\* C8 (continuity): in a run without a failed fetch or store statement, when
\* the live path writes a row for minute m, no bucket the exchange produced
\* between the previously largest stored minute and m is missing.
C8_Continuity ==
    ( /\ ev.op = "insert" /\ ev.prev = 1
      /\ fetchFails = 0 /\ storeFails = 0
      /\ tradeBin1m.rows # {ev.ts} )
    => \A x \in Exch(clock) :
          (x < ev.ts /\ x \notin tradeBin1m.rows)
          => \E y \in tradeBin1m.rows : y > x /\ y # ev.ts

\* C9 (no terminal state): a failed connect or reconnect attempt does not end capture_data.
C9_NoTerminalState == ev.op = "connect_failed" => pc # "ended"

\* C10 (shutdown ordering): the store connection is closed only once the
\* capture task has ended or has been cancelled.
C10_ShutdownOrdering == ~connection => pc \in {"ended", "cancelled"}

\* C11 as claimed (insert failure handled like fetch failure): when the store
\* refuses an insert of a successfully fetched page, start_time is not
\* advanced, so the next request would be for the same window.
C11_InsertFailureRetries ==
    (ev.op = "fetch_ok" /\ lastReq.ins_failed) => StartTimeStr(start_time) = lastReq.start

\* C11 as amended: only a failed request keeps start_time.  After a
\* successful request start_time is two hours past the start requested and
\* the pass goes on to its pacing sleep, whether or not the store refused an
\* insert of the page; after a failed request start_time is unchanged.
C11_InsertFailureAdvances ==
    /\ ev.op = "fetch_ok"
         => (pc = "sleep" /\ StartTimeStr(start_time) = lastReq.start + TwoHours)
    /\ ev.op = "fetch_fail"
         => (pc = "sleep" /\ StartTimeStr(start_time) = lastReq.start)

\* An insert of a fetched page met a transient fault of the store and the pass
\* went on two hours further.
C11_Witness ==
    /\ ev.op = "fetch_ok" /\ lastReq.ins_failed
    /\ storeFails = 1 /\ pass.max # None
    /\ pc = "sleep"
    /\ StartTimeStr(start_time) = lastReq.start + TwoHours

\* C12 as claimed (first window start): at the invocation of a pass
\* start_time is min(now - horizon, M) + 60 s, M being the newest stored
\* bucket, or now when the store is empty; so it is at most one minute after
\* the newest stored bucket and at most now - horizon + 60 s.
C12_FirstStartFromStore ==
    ev.op = "enter"
    => LET M == IF pass.true_max = None THEN pass.now ELSE pass.true_max
       IN  /\ start_time = Min(pass.now - horizon, M) + MINUTE
           /\ pass.true_max # None => start_time <= pass.true_max + MINUTE
           /\ start_time <= pass.now - horizon + MINUTE

\* C12 as amended: at the invocation start_time is min(now - horizon, M) + 60 s,
\* M being the maximum the store returned, or now when it returned none
\* (the store is empty, or the query failed).  So start_time is at most
\* now - horizon + 60 s, and at most one minute after the newest stored
\* bucket when the query returned it; the first request of the pass is for
\* the minute of start_time.
C12_FirstStartFromQuery ==
    /\ pass.max # None => pass.max = pass.true_max
    /\ ev.op = "enter"
         => /\ pass.max = None => start_time = pass.now - horizon + MINUTE
            /\ (pass.max # None /\ pass.max <= pass.now - horizon)
                  => start_time = pass.max + MINUTE
            /\ (pass.max # None /\ pass.max > pass.now - horizon)
                  => start_time = pass.now - horizon + MINUTE
            /\ start_time <= pass.now - horizon + MINUTE
            /\ pass.max # None => start_time <= pass.max + MINUTE
    /\ (nreq >= 1 /\ pass.max # None)
         => pass.first = StartTimeStr(Min(pass.now - horizon, pass.max) + MINUTE)

\* A pass with the outage horizon was invoked on a store ten minutes behind
\* whose maximum query failed, and starts four minutes before now.
C12_Witness ==
    /\ ev.op = "enter"
    /\ horizon = Cushion
    /\ pass.max = None /\ pass.true_max = pass.now - 10 * MINUTE
    /\ start_time = pass.now - 4 * MINUTE

\* C13 (outage marker lifecycle): the marker holds the time of the first
\* receive failure since a frame was last received, and is clear when there
\* was none: it is set at that failure, kept across further failures and
\* reconnects, and cleared only by the next frame received.
C13_MarkerLifecycle == when_outage_occurred = firstFailure

\* C14 (protocol anomalies are discarded): a frame that is malformed, lacks
\* fields, names another instrument or precedes the snapshot causes no insert
\* and does not end capture_data, which goes back to the top of its loop.
C14_AnomalyDiscarded ==
    ev.op \in {"raise", "skip"} => (ev.prev = 0 /\ ev.ts = None /\ pc = "while_true")

\* The frame is an acknowledgment (no table or no action) or a snapshot.
AckOrSnapshot(f) ==
    \/ f.table = Absent \/ f.action = Absent
    \/ (f.table = "tradeBin1m" /\ f.action = "partial")

\* C15 (live frame handling): the handling of a received frame writes at most
\* one row and removes none; an acknowledgment or a snapshot frame causes no
\* insert; a bucket is handed to insert_trade_bucket only for a data frame
\* received after a snapshot, and it is the last element of the frame's
\* payload, which has a timestamp and the symbol XBTUSD; no other element of
\* the payload is written.
C15_LiveFrameHandling ==
    [][ (pc = "recv" /\ frame' # NoFrame)
        => LET f == frame'
               added == tradeBin1m'.rows \ tradeBin1m.rows
           IN  /\ Cardinality(added) <= 1
               /\ tradeBin1m.rows \subseteq tradeBin1m'.rows
               /\ tradeBin1m'.dups = tradeBin1m.dups
               /\ ev'.op # "insert" => added = {}
               /\ (f.json /\ AckOrSnapshot(f)) => ev'.op # "insert"
               /\ ev'.op = "insert"
                    => /\ f.json /\ ~AckOrSnapshot(f)
                       /\ rcvd_tradeBin1m_partial
                       /\ f.hasData /\ Len(f.data) >= 1
                       /\ f.data[Len(f.data)].timestamp \notin {None, BadTs}
                       /\ f.data[Len(f.data)].symbol = "XBTUSD"
                       /\ ev'.ts = f.data[Len(f.data)].timestamp
                       /\ added \subseteq {f.data[Len(f.data)].timestamp}
      ]_vars

\* A data frame with two buckets was received after the snapshot: its last
\* bucket was written and the one before it, which the store lacks, was not.
C15_Witness ==
    /\ ev.op = "insert" /\ ev.prev = 1
    /\ Len(frame.data) = 2
    /\ ev.ts = frame.data[2].timestamp
    /\ ev.ts \in tradeBin1m.rows
    /\ frame.data[1].timestamp \notin tradeBin1m.rows

\* The operations of a reconciliation pass, from its call to its last test.
PassOps == {"start", "recv_failed", "enter", "test", "fetch_ok", "fetch_fail", "sleep"}

\* The operations of the live path: connecting, receiving and handling a frame.
LiveOps == {"connect", "reconnect", "recovered", "connect_failed",
            "raise", "skip", "partial", "insert"}

\* C16 (single writer): while a reconciliation pass is in progress no frame
\* is received or handled, no connection is attempted and the socket is left
\* alone; a step writes the table either as the page of a pass or as the
\* bucket of a live frame, never both; and a connection attempted after a
\* receive failure follows a pass that was invoked after that failure and
\* has returned.
C16_SingleWriter ==
    [][ /\ ev.op \in PassOps
          => /\ ev'.op \notin LiveOps
             /\ frame' = frame /\ websocket' = websocket
             /\ rcvd_tradeBin1m_partial' = rcvd_tradeBin1m_partial
        /\ tradeBin1m' # tradeBin1m
          => \/ (ev'.op = "fetch_ok" /\ ev.op = "test" /\ frame' = frame)
             \/ (ev'.op = "insert" /\ ev.op \notin PassOps /\ UNCHANGED fillVars)
        /\ (ev'.op \in {"recovered", "connect_failed"} /\ outage.since # None)
          => /\ ev.op \notin PassOps
             /\ pass.now # None /\ pass.now >= outage.since
             /\ start_time > now
      ]_vars

\* The connection was made again after a receive failure, once the pass
\* invoked at the failure had written its page and returned.
C16_Witness ==
    /\ ev.op = "recovered"
    /\ recvFails >= 1
    /\ nreq >= 1 /\ lastReq.ok /\ lastReq.npage >= 1
    /\ horizon = Cushion
    /\ start_time > now

C18_StartupOrdering ==
    /\ [][ (ev'.op = "enter" /\ horizon' = DefaultHorizon)
              => (pass = NoPass /\ ev.op = "start" /\ clock = T0) ]_vars
    /\ [][ (recvFails = 0 /\ ev.op \in PassOps \cup {"init"} /\ tradeBin1m' # tradeBin1m)
              => ev'.op = "fetch_ok" ]_vars
    /\ []((recvFails = 0 /\ ev.op \in PassOps \cup {"init"})
              => (~websocket /\ frame = NoFrame /\ ~rcvd_tradeBin1m_partial))
    /\ [](ev.op \in LiveOps
              => (pass.now = T0 \/ recvFails >= 1) /\ pass.now # None /\ start_time > now)
    /\ [](ev.op = "connect"
              => (recvFails = 0 /\ horizon = DefaultHorizon /\ pass.now = T0
                  /\ start_time > now))

\* The first connection was opened after the default pass, invoked at the
\* start of the run, had made its 252 requests or more and returned.
C18_Witness ==
    /\ ev.op = "connect" /\ websocket
    /\ recvFails = 0
    /\ horizon = DefaultHorizon /\ pass.now = T0
    /\ nreq >= 252
    /\ start_time > now
    /\ frame = NoFrame

\* C19 (pacing): a page request that is not the first of its pass is made at
\* least the pacing sleep after the request before it, whether that one
\* succeeded or failed; every request is followed by the sleep before the
\* loop test is reached again.
C19_Pacing ==
    [][ /\ (nreq' = nreq + 1 /\ nreq >= 1)
              => (lastReq'.at >= lastReq.at + SleepSecs /\ lastReq'.at = clock)
        /\ ev.op \in {"fetch_ok", "fetch_fail"}
              => (ev'.op \in {"sleep", "interrupt"} /\ pc = "sleep")
        /\ ev'.op = "sleep" => clock' = clock + SleepSecs
      ]_vars

\* A request was repeated two seconds after it had failed.
C19_Witness ==
    /\ nreq >= 2 /\ ~lastReq.pok
    /\ ev.op \in {"fetch_ok", "fetch_fail"}
    /\ lastReq.at = clock
    /\ ev.ts = ev.prev
    /\ clock >= pass.now + SleepSecs

\* C20 (fixed two-hour stride): in a pass, start_time is the start of the
\* invocation plus two hours for every request that succeeded so far,
\* whatever the pages held, so every request is for the minute of
\* start0 + k * 2 h, k counting the successful requests before it; after a
\* successful request start_time is two hours past the start requested, for
\* an empty page, a short page and a full page alike, and is never derived
\* from the newest bucket of the page.
C20_FixedStride ==
    LET start0 == FirstStart(pass.now, horizon, DefaultToNow(pass.max, pass.now))
        done   == nreq - fetchFails
    IN  /\ pass.now # None => start_time = start0 + done * TwoHours
        /\ nreq >= 1
             => /\ lastReq.start =
                     StartTimeStr(start0 + (IF lastReq.ok THEN done - 1 ELSE done) * TwoHours)
                /\ lastReq.start >= pass.first
        /\ ev.op = "fetch_ok"
             => /\ lastReq.npage \in 0..PageCount
                /\ StartTimeStr(start_time) = lastReq.start + TwoHours

\* A successful request returned an empty page and start_time moved two hours on.
C20_Witness ==
    /\ ev.op = "fetch_ok" /\ lastReq.npage = 0
    /\ nreq >= 2
    /\ StartTimeStr(start_time) = lastReq.start + TwoHours
    /\ start_time = pass.max + MINUTE + 2 * TwoHours

====
